---- MODULE Spec2Model ----
(***************************************************************************)
(* A model of reviewer.py: review_pr fetches the diff of a pull request,   *)
(* asks a chat-completion service for a verdict (create_chat_completion,   *)
(* a retry loop with exponential backoff) and posts an approve / request   *)
(* changes review (_push_review).                                          *)
(*                                                                         *)
(* Texts (the model's answer, URLs, diffs) are sequences of one-character  *)
(* strings, so that strip, lower, startswith and slicing are computed as   *)
(* Python computes them.                                                   *)
(***************************************************************************)
EXTENDS Integers, Sequences, FiniteSets, TLC

\* ------------------------------------------------------------------ text

\* str.strip() removes these from both ends
Whitespace == {" ", "\t", "\n", "\r"}

Uppers == <<"A","B","C","D","E","F","G","H","I","J","K","L","M",
            "N","O","P","Q","R","S","T","U","V","W","X","Y","Z">>

Lowers == <<"a","b","c","d","e","f","g","h","i","j","k","l","m",
            "n","o","p","q","r","s","t","u","v","w","x","y","z">>

\* one character of str.lower()
LowerChar(c) ==
    IF \E i \in 1..Len(Uppers) : Uppers[i] = c
    THEN Lowers[CHOOSE i \in 1..Len(Uppers) : Uppers[i] = c]
    ELSE c

\* str.lower()
Lower(s) == [i \in 1..Len(s) |-> LowerChar(s[i])]

\* s[n:] for n >= 0
DropFirst(s, n) == IF n >= Len(s) THEN <<>> ELSE SubSeq(s, n + 1, Len(s))

RECURSIVE LStrip(_)
LStrip(s) ==
    IF s # <<>> /\ Head(s) \in Whitespace THEN LStrip(Tail(s)) ELSE s

RECURSIVE RStrip(_)
RStrip(s) ==
    IF s # <<>> /\ s[Len(s)] \in Whitespace
    THEN RStrip(SubSeq(s, 1, Len(s) - 1))
    ELSE s

\* str.strip()
Strip(s) == RStrip(LStrip(s))

\* str.startswith(p)
StartsWith(s, p) == Len(s) >= Len(p) /\ SubSeq(s, 1, Len(p)) = p

\* the two verdict tokens of _push_review
Acceptable == <<"a","c","c","e","p","t","a","b","l","e">>

RequestChanges == <<"r","e","q","u","e","s","t"," ","c","h","a","n","g","e","s">>

\* ------------------------------------------------------------------- URL

\* None, as extract_github_info returns it, and a Python None in general
NoInfo == [matched |-> FALSE, owner |-> <<>>, repo |-> <<>>, pull_id |-> 0]

Digits == <<"0","1","2","3","4","5","6","7","8","9">>

IsDigit(c) == \E i \in 1..Len(Digits) : Digits[i] = c

DigitVal(c) == (CHOOSE i \in 1..Len(Digits) : Digits[i] = c) - 1

\* int(s) of a string of digits
RECURSIVE ToInt(_)
ToInt(s) ==
    IF s = <<>> THEN 0
    ELSE 10 * ToInt(SubSeq(s, 1, Len(s) - 1)) + DigitVal(s[Len(s)])

\* the longest prefix of s of characters other than "/": what [^/]+ takes
RECURSIVE Segment(_)
Segment(s) ==
    IF s = <<>> \/ Head(s) = "/" THEN <<>> ELSE <<Head(s)>> \o Segment(Tail(s))

\* the longest prefix of s made of digits: what \d+ takes
RECURSIVE DigitRun(_)
DigitRun(s) ==
    IF s = <<>> \/ ~IsDigit(Head(s)) THEN <<>> ELSE <<Head(s)>> \o DigitRun(Tail(s))

\* the literal head of the pattern; its "." is the regex wildcard
UrlHead == <<"h","t","t","p","s",":","/","/","g","i","t","h","u","b",".","c","o","m","/">>

PullPart == <<"p","u","l","l","/">>

MatchesHead(url) ==
    /\ Len(url) >= Len(UrlHead)
    /\ \A i \in 1..Len(UrlHead) :
          IF UrlHead[i] = "." THEN url[i] # "\n" ELSE url[i] = UrlHead[i]

\* re.match(r'https://github.com/([^/]+)/([^/]+)/pull/(\d+)', url): anchored at
\* the start of url only
extract_github_info(url) ==
    IF ~MatchesHead(url) THEN NoInfo
    ELSE
      LET r1    == DropFirst(url, Len(UrlHead))
          owner == Segment(r1)
          r2    == DropFirst(r1, Len(owner))
          r3    == DropFirst(r2, 1)
          repo  == Segment(r3)
          r4    == DropFirst(r3, Len(repo))
          r5    == DropFirst(r4, 1)
          r6    == DropFirst(r5, Len(PullPart))
          num   == DigitRun(r6)
      IN  IF /\ owner # <<>> /\ StartsWith(r2, <<"/">>)
             /\ repo # <<>>  /\ StartsWith(r4, <<"/">>)
             /\ StartsWith(r5, PullPart)
             /\ num # <<>>
          THEN [matched |-> TRUE, owner |-> owner, repo |-> repo,
                pull_id |-> ToInt(num)]
          ELSE NoInfo

\* ---------------------------------------------------------------- inputs

\* "Acceptable, nice work"
TextNiceWork ==
    <<"A","c","c","e","p","t","a","b","l","e",","," ","n","i","c","e"," ","w",
      "o","r","k">>

\* "Request Changes: add tests"
TextAddTests ==
    <<"R","e","q","u","e","s","t"," ","C","h","a","n","g","e","s",":"," ","a",
      "d","d"," ","t","e","s","t","s">>

\* "Maybe?"
TextMaybe ==
    <<"M","a","y","b","e","?">>

\* "acceptable - looks good"
TextLooksGood ==
    <<"a","c","c","e","p","t","a","b","l","e"," ","-"," ","l","o","o","k","s",
      " ","g","o","o","d">>

\* "acceptable acceptable"
TextTwice ==
    <<"a","c","c","e","p","t","a","b","l","e"," ","a","c","c","e","p","t","a",
      "b","l","e">>

\* "ACCEPTABLE"
TextUpper ==
    <<"A","C","C","E","P","T","A","B","L","E">>

\* "request changes"
TextBareRequest ==
    <<"r","e","q","u","e","s","t"," ","c","h","a","n","g","e","s">>

\* "acceptabl"
TextShort ==
    <<"a","c","c","e","p","t","a","b","l">>

\* "REQUEST CHANGES fix \n it"
TextInner ==
    <<"R","E","Q","U","E","S","T"," ","C","H","A","N","G","E","S"," ","f","i",
      "x"," ","\n"," ","i","t">>

\* "requestchanges"
TextJoined ==
    <<"r","e","q","u","e","s","t","c","h","a","n","g","e","s">>

\* "Request  Changes"
TextTwoSpaces ==
    <<"R","e","q","u","e","s","t"," "," ","C","h","a","n","g","e","s">>

\* "unacceptable"
TextUnacceptable ==
    <<"u","n","a","c","c","e","p","t","a","b","l","e">>

\* "Request Changes acceptable"
TextBoth ==
    <<"R","e","q","u","e","s","t"," ","C","h","a","n","g","e","s"," ","a","c",
      "c","e","p","t","a","b","l","e">>

\* "https://github.com/foo/bar/pull/116"
LinkGood ==
    <<"h","t","t","p","s",":","/","/","g","i","t","h","u","b",".","c","o","m",
      "/","f","o","o","/","b","a","r","/","p","u","l","l","/","1","1","6">>

\* "https://github.com/foo/bar/pull/116/files"
LinkFiles ==
    <<"h","t","t","p","s",":","/","/","g","i","t","h","u","b",".","c","o","m",
      "/","f","o","o","/","b","a","r","/","p","u","l","l","/","1","1","6","/",
      "f","i","l","e","s">>

\* "https://github.com/o/r/pull/007"
LinkZeros ==
    <<"h","t","t","p","s",":","/","/","g","i","t","h","u","b",".","c","o","m",
      "/","o","/","r","/","p","u","l","l","/","0","0","7">>

\* "https://gitlab.com/foo/bar/pull/116"
LinkOtherHost ==
    <<"h","t","t","p","s",":","/","/","g","i","t","l","a","b",".","c","o","m",
      "/","f","o","o","/","b","a","r","/","p","u","l","l","/","1","1","6">>

\* "https://github.com/foo/bar/pull/new"
LinkNoNumber ==
    <<"h","t","t","p","s",":","/","/","g","i","t","h","u","b",".","c","o","m",
      "/","f","o","o","/","b","a","r","/","p","u","l","l","/","n","e","w">>

\* "https://github.com/foo/bar/issues/116"
LinkIssue ==
    <<"h","t","t","p","s",":","/","/","g","i","t","h","u","b",".","c","o","m",
      "/","f","o","o","/","b","a","r","/","i","s","s","u","e","s","/","1","1",
      "6">>

\* "https://githubxcom/o/r/pull/7"
LinkDot ==
    <<"h","t","t","p","s",":","/","/","g","i","t","h","u","b","x","c","o","m",
      "/","o","/","r","/","p","u","l","l","/","7">>

\* "+x"
DiffAdd ==
    <<"+","x">>

\* "-y"
DiffDel ==
    <<"-","y">>

\* texts the chat-completion service may answer with, without padding
Cores ==
    {TextNiceWork, TextAddTests, TextMaybe, TextLooksGood, TextTwice, TextUpper,
     TextBareRequest, TextShort, TextInner, TextJoined, TextTwoSpaces,
     TextUnacceptable, TextBoth, <<>>}

\* the longest run of whitespace put around an answer
MaxPad == 1

PadChars == {" ", "\n"}

RECURSIVE PadsOfLen(_)
PadsOfLen(n) ==
    IF n = 0 THEN {<<>>}
    ELSE {<<c>> \o p : c \in PadChars, p \in PadsOfLen(n - 1)}

Pads == UNION {PadsOfLen(n) : n \in 0..MaxPad}

\* every answer _push_review is tried on
ReviewTexts == {l \o c \o r : l \in Pads, c \in Cores, r \in Pads}

\* every URL extract_github_info is tried on
PrLinks ==
    {LinkGood, LinkFiles, LinkZeros, LinkOtherHost, LinkNoNumber, LinkIssue,
     LinkDot}

\* the answers and URLs of the whole-run specification
ChatTexts == {TextNiceWork, TextAddTests, TextMaybe}

RunLinks == {LinkGood, LinkOtherHost}

Diffs == {DiffAdd, DiffDel}

\* status codes the diff GET and the review POST may answer with
GetStatuses == {200, 404}

PostStatuses == {200, 422}

\* ----------------------------------------------------------------- state

VARIABLES
    pc,            \* where review_pr stands
    pr_link,       \* review_pr's argument
    diff,          \* the body of the diff GET
    attempt,       \* the loop variable of create_chat_completion
    warned_user,   \* its one-time warning flag
    response,      \* its response variable: None or the last successful answer
    llm_response,  \* what create_chat_completion returned to review_pr
    result,        \* how review_pr ended: a return value or a raised error
    gets,          \* history: the status codes the diff GETs of this invocation got
    posts,         \* history: the review POSTs of this invocation
    apiCalls,      \* history: the chat-completion attempts of this invocation
    sleeps,        \* history: the time.sleep calls of this invocation, in order
    warnings,      \* history: the LOGGER.info warnings of this invocation
    rlCount,       \* history: the rate-limited attempts of this invocation
    badGateways,   \* history: its attempts that failed with an APIError of status 502
    firstOk,       \* history: the first successful answer of this invocation
    callsAfterOk,  \* history: the attempts made after the first successful one
    sleepsAfterOk, \* history: the sleeps made after the first successful attempt
    last,          \* history: the latest attempt, its index and its outcome
    request,       \* the arguments _process_diff gives create_chat_completion
    sent,          \* history: the requests the attempts of this invocation sent
    fetched        \* history: the body the diff GET of this invocation answered

vars ==
    <<pc, pr_link, diff, attempt, warned_user, response, llm_response, result,
      gets, posts, apiCalls, sleeps, warnings, rlCount, badGateways, firstOk,
      callsAfterOk, sleepsAfterOk, last, request, sent, fetched>>

\* a Python None where a text is expected, and a text that is there
None == [some |-> FALSE, text |-> <<>>]

Some(t) == [some |-> TRUE, text |-> t]

\* review_pr still runs
Running == [kind |-> "running", exc |-> "", site |-> "", status |-> 0, text |-> <<>>]

\* review_pr returned the string "Successfully reviewed PR."
Returned == [kind |-> "returned", exc |-> "", site |-> "", status |-> 0, text |-> <<>>]

\* an exception of class exc left review_pr, raised at site; status and text
\* are the status code and the text it carries
Raised(exc, site, status, text) ==
    [kind |-> "raised", exc |-> exc, site |-> site, status |-> status, text |-> text]

NoAttempt == [index |-> 0, class |-> "none", http_status |-> 0]

\* ------------------------------------------------------ _process_diff parts

\* stands for the fixed system prompt of lines 55-71, by its first line
SystemPrompt == <<"I","n","s","t","r","u","c","t","i","o","n","s",":">>

\* mutant: the two messages in the other order
ChatMessages_Reordered(d) ==
    <<[role |-> "user", content |-> d],
      [role |-> "system", content |-> SystemPrompt]>>

\* lines 74-80
ChatMessages(d) ==
    <<[role |-> "system", content |-> SystemPrompt],
      [role |-> "user", content |-> d]>>

\* line 82 and lines 182-188: the keyword arguments of every API call
ChatRequest(d) ==
    [model |-> "gpt-4", messages |-> ChatMessages(d), temperature |-> 0,
     max_tokens |-> "None"]

\* before _process_diff has built any request
NoRequest == [model |-> "", messages |-> <<>>, temperature |-> 0, max_tokens |-> "None"]

\* --------------------------------------------- create_chat_completion parts

num_retries == 10

\* the outcomes of one openai.ChatCompletion.create call: an answer, or an
\* exception of the openai.error hierarchy with its http_status (0 is None)
ApiOutcomes ==
    {[class |-> "ok", http_status |-> 200, content |-> t] : t \in ChatTexts}
    \cup {[class |-> "RateLimitError",     http_status |-> 429, content |-> <<>>],
          [class |-> "APIError",           http_status |-> 502, content |-> <<>>],
          [class |-> "APIError",           http_status |-> 500, content |-> <<>>],
          [class |-> "Timeout",            http_status |-> 0,   content |-> <<>>],
          [class |-> "APIConnectionError", http_status |-> 0,   content |-> <<>>]}

\* mutant: the exponent one too small
backoff_OffByOne(a) == 2 ^ (a + 1)

backoff(a) == 2 ^ (a + 2)

\* except (APIError, Timeout)
CaughtAsApiError(class) == class \in {"APIError", "Timeout"}

\* mutant: the status is never looked at, every caught error is retried
NotBadGateway_Never(e) == FALSE

\* if e.http_status != 502: raise
NotBadGateway(e) == e.http_status # 502

\* mutant: the last index compared one too far
IsLastAttempt_OffByOne(a) == a = num_retries

\* if attempt == num_retries - 1: raise
IsLastAttempt(a) == a = num_retries - 1

\* mutant: the flag is not consulted
MustWarn_Always(w) == TRUE

\* if not warned_user
MustWarn(w) == ~w

\* mutant: one iteration too many
RangeHasNext_OneMore(a) == a < num_retries

\* for attempt in range(num_retries): whether another iteration follows a
RangeHasNext(a) == a + 1 < num_retries

\* mutant: a missing response is returned as an empty text
ChatReturn_Swallow(r) == [raised |-> FALSE, value |-> r.text]

\* lines 209-216: response.choices[0].message["content"], which raises
\* AttributeError when response is None
ChatReturn(r) ==
    IF r.some
    THEN [raised |-> FALSE, value |-> r.text]
    ELSE [raised |-> TRUE, value |-> <<>>]

\* ------------------------------------------------------- _push_review parts

\* mutant: the status of the GET is not checked
FetchOk_Unchecked(status) == TRUE

\* line 37
FetchOk(status) == status = 200

\* mutant: the status of the POST is not checked
PostOk_Unchecked(status) == TRUE

\* line 133
PostOk(status) == status = 200

\* mutant: the final else does not raise, the text counts as a request for
\* changes
ParseVerdict_NoReject(review) ==
    LET stripped == Strip(review)
    IN  IF StartsWith(Lower(stripped), Acceptable)
        THEN [valid |-> TRUE, accepted |-> TRUE, stripped |-> stripped,
              tail_of_review |-> DropFirst(stripped, Len(Acceptable))]
        ELSE [valid |-> TRUE, accepted |-> FALSE, stripped |-> stripped,
              tail_of_review |-> DropFirst(stripped, Len(RequestChanges))]

\* mutant: the prefix is tested without lower()
ParseVerdict_CaseSensitive(review) ==
    LET stripped == Strip(review)
    IN  IF StartsWith(stripped, Acceptable)
        THEN [valid |-> TRUE, accepted |-> TRUE, stripped |-> stripped,
              tail_of_review |-> DropFirst(stripped, Len(Acceptable))]
        ELSE IF StartsWith(stripped, RequestChanges)
        THEN [valid |-> TRUE, accepted |-> FALSE, stripped |-> stripped,
              tail_of_review |-> DropFirst(stripped, Len(RequestChanges))]
        ELSE [valid |-> FALSE, accepted |-> FALSE, stripped |-> stripped,
              tail_of_review |-> <<>>]

\* lines 107-114: the verdict of a model text
ParseVerdict(review) ==
    LET stripped == Strip(review)
    IN  IF StartsWith(Lower(stripped), Acceptable)
        THEN [valid |-> TRUE, accepted |-> TRUE, stripped |-> stripped,
              tail_of_review |-> DropFirst(stripped, Len(Acceptable))]
        ELSE IF StartsWith(Lower(stripped), RequestChanges)
        THEN [valid |-> TRUE, accepted |-> FALSE, stripped |-> stripped,
              tail_of_review |-> DropFirst(stripped, Len(RequestChanges))]
        ELSE [valid |-> FALSE, accepted |-> FALSE, stripped |-> stripped,
              tail_of_review |-> <<>>]

\* mutant: a missing match is not noticed
Subscriptable_Always(info) == TRUE

\* line 122: info['owner'] raises TypeError when info is None
Subscriptable(info) == info.matched

\* mutant: the remainder is trimmed before it is posted
ReviewBody_Trimmed(v) ==
    [event |-> IF v.accepted THEN "APPROVE" ELSE "REQUEST_CHANGES",
     body  |-> Strip(v.tail_of_review)]

\* mutant: the two events exchanged
ReviewBody_Swapped(v) ==
    [event |-> IF v.accepted THEN "REQUEST_CHANGES" ELSE "APPROVE",
     body  |-> v.tail_of_review]

\* lines 117-120
ReviewBody(v) ==
    [event |-> IF v.accepted THEN "APPROVE" ELSE "REQUEST_CHANGES",
     body  |-> v.tail_of_review]

\* --------------------------------------------------------------- actions

Init ==
    /\ pc = "idle"
    /\ pr_link = <<>>
    /\ diff = <<>>
    /\ attempt = 0
    /\ warned_user = FALSE
    /\ response = None
    /\ llm_response = None
    /\ result = Running
    /\ gets = <<>>
    /\ posts = <<>>
    /\ apiCalls = 0
    /\ sleeps = <<>>
    /\ warnings = 0
    /\ rlCount = 0
    /\ badGateways = 0
    /\ firstOk = None
    /\ callsAfterOk = 0
    /\ sleepsAfterOk = 0
    /\ last = NoAttempt
    /\ request = NoRequest
    /\ sent = {}
    /\ fetched = <<>>

\* review_pr, lines 35-40: a caller invokes review_pr(link); the diff GET
\* answers status with body
ReviewPr(link, status, body) ==
    /\ pc \in {"idle", "done"}
    /\ pr_link' = link
    /\ gets' = <<status>>
    /\ posts' = <<>>
    /\ apiCalls' = 0
    /\ sleeps' = <<>>
    /\ warnings' = 0
    /\ rlCount' = 0
    /\ badGateways' = 0
    /\ firstOk' = None
    /\ callsAfterOk' = 0
    /\ sleepsAfterOk' = 0
    /\ last' = NoAttempt
    /\ llm_response' = None
    /\ sent' = {}
    /\ fetched' = body
    /\ IF FetchOk(status)
       THEN /\ diff' = body
            /\ pc' = "process_diff"
            /\ result' = Running
       ELSE /\ diff' = <<>>
            /\ pc' = "done"
            /\ result' = Raised("ValueError", "fetch", status, body)
    /\ UNCHANGED <<attempt, warned_user, response, request>>

\* mutant: the warning flag is module state, set once and never reset
ProcessDiff_KeepsFlag ==
    /\ pc = "process_diff"
    /\ response' = None
    /\ attempt' = 0
    /\ request' = ChatRequest(diff)
    /\ pc' = "chat_call"
    /\ UNCHANGED <<pr_link, diff, llm_response, result, gets, posts, apiCalls,
                   sleeps, warnings, rlCount, badGateways, firstOk,
                   callsAfterOk, sleepsAfterOk, last, sent, fetched,
                   warned_user>>

\* _process_diff, lines 72-82, entering create_chat_completion, lines 170-179
ProcessDiff ==
    /\ pc = "process_diff"
    /\ warned_user' = FALSE
    /\ response' = None
    /\ attempt' = 0
    /\ request' = ChatRequest(diff)
    /\ pc' = "chat_call"
    /\ UNCHANGED <<pr_link, diff, llm_response, result, gets, posts, apiCalls,
                   sleeps, warnings, rlCount, badGateways, firstOk,
                   callsAfterOk, sleepsAfterOk, last, sent, fetched>>

\* an exception leaves create_chat_completion, _process_diff and review_pr
ChatRaises(o) ==
    /\ pc' = "done"
    /\ result' = Raised(o.class, "chat", o.http_status, <<>>)

\* lines 180-203: one attempt of the loop body, whose API call ends as o
ChatAttempt(o) ==
    /\ pc = "chat_call"
    /\ apiCalls' = apiCalls + 1
    /\ callsAfterOk' = IF firstOk.some THEN callsAfterOk + 1 ELSE callsAfterOk
    /\ last' = [index |-> attempt, class |-> o.class, http_status |-> o.http_status]
    /\ badGateways' = IF o.class = "APIError" /\ o.http_status = 502
                      THEN badGateways + 1 ELSE badGateways
    /\ IF o.class = "ok"
       THEN /\ response' = Some(o.content)
            /\ firstOk' = IF firstOk.some THEN firstOk ELSE Some(o.content)
            /\ pc' = "chat_sleep"
            /\ UNCHANGED <<warned_user, warnings, rlCount, result>>
       ELSE IF o.class = "RateLimitError"
       THEN /\ rlCount' = rlCount + 1
            /\ warnings' = IF MustWarn(warned_user) THEN warnings + 1 ELSE warnings
            /\ warned_user' = TRUE
            /\ pc' = "chat_sleep"
            /\ UNCHANGED <<response, firstOk, result>>
       ELSE IF CaughtAsApiError(o.class)
       THEN /\ IF NotBadGateway(o) \/ IsLastAttempt(attempt)
               THEN ChatRaises(o)
               ELSE pc' = "chat_sleep" /\ UNCHANGED result
            /\ UNCHANGED <<response, firstOk, warned_user, warnings, rlCount>>
       ELSE /\ ChatRaises(o)
            /\ UNCHANGED <<response, firstOk, warned_user, warnings, rlCount>>
    /\ sent' = sent \cup {request}
    /\ UNCHANGED <<pr_link, diff, attempt, llm_response, gets, posts, sleeps,
                   sleepsAfterOk, request, fetched>>

\* lines 204-208 and the loop header: the sleep that ends every iteration
\* that raised nothing, then the next iteration or the end of the loop
ChatSleep ==
    /\ pc = "chat_sleep"
    /\ sleeps' = Append(sleeps, [after |-> attempt, seconds |-> backoff(attempt)])
    /\ sleepsAfterOk' = IF firstOk.some THEN sleepsAfterOk + 1 ELSE sleepsAfterOk
    /\ IF RangeHasNext(attempt)
       THEN attempt' = attempt + 1 /\ pc' = "chat_call"
       ELSE attempt' = attempt /\ pc' = "chat_end"
    /\ UNCHANGED <<pr_link, diff, warned_user, response, llm_response, result,
                   gets, posts, apiCalls, warnings, rlCount, badGateways,
                   firstOk, callsAfterOk, last, request, sent, fetched>>

\* lines 209-216, then review_pr line 43-45
ChatFinish ==
    /\ pc = "chat_end"
    /\ LET r == ChatReturn(response)
       IN  IF r.raised
           THEN /\ pc' = "done"
                /\ result' = Raised("AttributeError", "no_response", 0, <<>>)
                /\ UNCHANGED llm_response
           ELSE /\ pc' = "push"
                /\ llm_response' = Some(r.value)
                /\ UNCHANGED result
    /\ UNCHANGED <<pr_link, diff, attempt, warned_user, response, gets, posts,
                   apiCalls, sleeps, warnings, rlCount, badGateways, firstOk,
                   callsAfterOk, sleepsAfterOk, last, request, sent, fetched>>

\* _push_review, lines 103-135, and review_pr's return, line 48; the review
\* POST, when it is made, answers status
PushReview(status) ==
    /\ pc = "push"
    /\ pc' = "done"
    /\ LET info == extract_github_info(pr_link)
           v    == ParseVerdict(llm_response.text)
       IN  IF ~v.valid
           THEN /\ result' = Raised("ValueError", "verdict", 0, v.stripped)
                /\ UNCHANGED posts
           ELSE IF ~Subscriptable(info)
           THEN /\ result' = Raised("TypeError", "url", 0, <<>>)
                /\ UNCHANGED posts
           ELSE /\ posts' = Append(posts,
                      [owner |-> info.owner, repo |-> info.repo,
                       pull_id |-> info.pull_id, data |-> ReviewBody(v),
                       answer |-> status])
                /\ result' = IF PostOk(status)
                             THEN Returned
                             ELSE Raised("ValueError", "post", status, <<>>)
    /\ UNCHANGED <<pr_link, diff, attempt, warned_user, response, llm_response,
                   gets, apiCalls, sleeps, warnings, rlCount, badGateways,
                   firstOk, callsAfterOk, sleepsAfterOk, last, request, sent,
                   fetched>>

Next ==
    \/ \E link \in RunLinks, status \in GetStatuses, body \in Diffs :
          ReviewPr(link, status, body)
    \/ ProcessDiff
    \/ \E o \in ApiOutcomes : ChatAttempt(o)
    \/ ChatSleep
    \/ ChatFinish
    \/ \E status \in PostStatuses : PushReview(status)

Spec == Init /\ [][Next]_vars

\* ------------------------------------- create_chat_completion on its own

\* the state in which review_pr(link) has fetched body and _process_diff has
\* entered create_chat_completion
AtChatEntry(link, body) ==
    /\ pc = "chat_call"
    /\ pr_link = link
    /\ diff = body
    /\ attempt = 0
    /\ warned_user = FALSE
    /\ response = None
    /\ llm_response = None
    /\ result = Running
    /\ gets = <<200>>
    /\ posts = <<>>
    /\ apiCalls = 0
    /\ sleeps = <<>>
    /\ warnings = 0
    /\ rlCount = 0
    /\ badGateways = 0
    /\ firstOk = None
    /\ callsAfterOk = 0
    /\ sleepsAfterOk = 0
    /\ last = NoAttempt
    /\ request = ChatRequest(body)
    /\ sent = {}
    /\ fetched = body

ChatInit == AtChatEntry(LinkGood, DiffAdd)

ChatNext ==
    \/ \E o \in ApiOutcomes : ChatAttempt(o)
    \/ ChatSleep
    \/ ChatFinish

ChatSpec == ChatInit /\ [][ChatNext]_vars

\* every step of create_chat_completion is a call that returns or raises (the
\* API call, time.sleep), so a started invocation keeps stepping
ChatFairSpec == ChatSpec /\ WF_vars(ChatNext)

\* ------------------------------- an invocation that follows another one

\* the state in which review_pr(link) has fetched body after an earlier
\* invocation that was rate-limited, and so warned, and that ended by an
\* error at the attempt of index a holding the response r
AfterWarnedCall(link, body, a, r) ==
    /\ pc = "process_diff"
    /\ pr_link = link
    /\ diff = body
    /\ attempt = a
    /\ warned_user = TRUE
    /\ response = r
    /\ llm_response = None
    /\ result = Running
    /\ gets = <<200>>
    /\ posts = <<>>
    /\ apiCalls = 0
    /\ sleeps = <<>>
    /\ warnings = 0
    /\ rlCount = 0
    /\ badGateways = 0
    /\ firstOk = None
    /\ callsAfterOk = 0
    /\ sleepsAfterOk = 0
    /\ last = NoAttempt
    /\ request = ChatRequest(DiffDel)
    /\ sent = {}
    /\ fetched = body

SecondCallInit ==
    \E a \in 1..(num_retries - 1), r \in {None} \cup {Some(t) : t \in ChatTexts} :
        \* a response beside a warning takes two attempts
        /\ r.some => a >= 2
        /\ AfterWarnedCall(LinkGood, DiffAdd, a, r)

SecondCallNext ==
    \/ ProcessDiff
    \/ \E o \in ApiOutcomes : ChatAttempt(o)
    \/ ChatSleep
    \/ ChatFinish

SecondCallSpec == SecondCallInit /\ [][SecondCallNext]_vars

\* ---------------------------------------- _push_review on its own inputs

\* the state in which create_chat_completion has just returned text t to
\* review_pr(link): the service answered t at each of the num_retries attempts
AfterChat(link, body, t) ==
    /\ pc = "push"
    /\ pr_link = link
    /\ diff = body
    /\ attempt = num_retries - 1
    /\ warned_user = FALSE
    /\ response = Some(t)
    /\ llm_response = Some(t)
    /\ result = Running
    /\ gets = <<200>>
    /\ posts = <<>>
    /\ apiCalls = num_retries
    /\ sleeps = [k \in 1..num_retries |-> [after |-> k - 1, seconds |-> backoff(k - 1)]]
    /\ warnings = 0
    /\ rlCount = 0
    /\ badGateways = 0
    /\ firstOk = Some(t)
    /\ callsAfterOk = num_retries - 1
    /\ sleepsAfterOk = num_retries
    /\ last = [index |-> num_retries - 1, class |-> "ok", http_status |-> 200]
    /\ request = ChatRequest(body)
    /\ sent = {ChatRequest(body)}
    /\ fetched = body

PushInit == \E link \in PrLinks, t \in ReviewTexts : AfterChat(link, DiffAdd, t)

PushNext == \E status \in PostStatuses : PushReview(status)

PushSpec == PushInit /\ [][PushNext]_vars

\* ---------------------------------------------------------------- claims

\* the states in which create_chat_completion has ended
ChatEnded == pc \in {"push", "done"}

\* the step is an API attempt of create_chat_completion, ending as class c
AttemptStep(c) == pc = "chat_call" /\ apiCalls' = apiCalls + 1 /\ last'.class = c

\* C1: once an attempt has succeeded, create_chat_completion makes no further
\* API attempt and no further sleep, no error ends the call, and what it
\* returns is the content of that first successful response.
C1_FirstSuccessReturns ==
    firstOk.some =>
        /\ callsAfterOk = 0
        /\ sleepsAfterOk = 0
        /\ ~(result.kind = "raised" /\ result.site \in {"chat", "no_response"})
        /\ (ChatEnded => llm_response = firstOk)

\* C2: an attempt that fails with status 502 at an index below 9 is followed
\* by the backoff sleep and by another attempt; at index 9 the failure leaves
\* the call; when every attempt answers 502 the call ends after exactly 10
\* attempts by raising that APIError.
C2_BadGatewayRetried ==
    /\ [][(AttemptStep("APIError") /\ last'.http_status = 502) =>
            IF attempt < 9
            THEN pc' = "chat_sleep" /\ result' = Running
            ELSE pc' = "done" /\ result' = Raised("APIError", "chat", 502, <<>>)]_vars
    /\ [][(pc = "chat_sleep" /\ last.class = "APIError") =>
            /\ pc' = "chat_call"
            /\ attempt' = attempt + 1
            /\ Len(sleeps') = Len(sleeps) + 1]_vars
    /\ []((ChatEnded /\ badGateways > 0 /\ badGateways = apiCalls) =>
            /\ apiCalls = 10
            /\ result = Raised("APIError", "chat", 502, <<>>))

\* C2 witness: ten attempts, each answered 502, and the tenth failure raised
C2_Witness ==
    /\ pc = "done"
    /\ badGateways = 10
    /\ apiCalls = 10
    /\ Len(sleeps) = 9
    /\ result = Raised("APIError", "chat", 502, <<>>)

\* C3: a timeout at an attempt index below 9 does not end the call: the call
\* is still running (sleeping or retrying) while that timeout is its latest
\* outcome.
C3_TimeoutRetried ==
    (last.class = "Timeout" /\ last.index < 9) => result.kind = "running"

\* C4: an API error that is neither a rate limit, nor a 502, nor a timeout
\* leaves the call from the attempt it occurs on: no sleep and no attempt
\* follows it.
C4_OtherErrorPropagates ==
    /\ [][(\/ AttemptStep("APIError") /\ last'.http_status # 502
           \/ AttemptStep("APIConnectionError")) =>
            /\ pc' = "done"
            /\ result' = Raised(last'.class, "chat", last'.http_status, <<>>)
            /\ sleeps' = sleeps]_vars
    /\ []((result.kind = "raised" /\ result.site = "chat" /\ result.status # 502
            /\ result.exc # "Timeout") =>
            /\ pc = "done"
            /\ apiCalls = last.index + 1
            /\ Len(sleeps) = last.index)
    /\ [][(result.kind = "raised") => (apiCalls' = apiCalls /\ sleeps' = sleeps)]_vars

\* C4 witness: a status-500 APIError at the first attempt ended the call with
\* one attempt and no sleep
C4_Witness ==
    /\ pc = "done"
    /\ result = Raised("APIError", "chat", 500, <<>>)
    /\ apiCalls = 1
    /\ sleeps = <<>>

\* C5: when all 10 attempts went by without a successful response the
\* invocation ends by raising, and create_chat_completion never returns a
\* value without having obtained a response.
C5_NoResponseRaises ==
    /\ (apiCalls = 10 /\ ~firstOk.some /\ pc \notin {"chat_sleep", "chat_end"}) =>
          /\ pc = "done"
          /\ result.kind = "raised"
          /\ result.site \in {"chat", "no_response"}
    /\ (llm_response.some \/ pc = "push") => firstOk.some

\* C5 witness: ten rate-limited attempts, then the no-response error
C5_Witness ==
    /\ pc = "done"
    /\ rlCount = 10
    /\ result = Raised("AttributeError", "no_response", 0, <<>>)

\* C6: a rate-limited attempt goes on to the backoff sleep, and the warning
\* is logged on the first rate-limited attempt of an invocation and on no
\* other attempt: once if any attempt was rate-limited, never otherwise.
C6_WarnedOnce ==
    /\ [](warnings = IF rlCount > 0 THEN 1 ELSE 0)
    /\ [][AttemptStep("RateLimitError") =>
            /\ pc' = "chat_sleep"
            /\ result' = Running
            /\ rlCount' = rlCount + 1
            /\ (warnings' = warnings + 1) <=> (rlCount = 0)]_vars
    /\ [][(warnings' # warnings) => AttemptStep("RateLimitError")]_vars

\* C6 witness: an invocation that was rate-limited several times, the tenth
\* attempt included, and warned once
C6_Witness ==
    /\ pc = "chat_sleep"
    /\ last = [index |-> 9, class |-> "RateLimitError", http_status |-> 429]
    /\ rlCount >= 3
    /\ warnings = 1

\* C7: every invocation of create_chat_completion ends, and makes at most 10
\* attempts, whatever the service answers.
C7_Terminates ==
    /\ [](apiCalls <= 10)
    /\ (pc \in {"chat_call", "chat_sleep", "chat_end"}) ~> ChatEnded

\* C7 witness: an invocation that ended after 10 attempts of mixed outcomes
C7_Witness ==
    /\ ChatEnded
    /\ apiCalls = 10
    /\ rlCount > 0
    /\ badGateways > 0
    /\ firstOk.some

\* C8: the k-th sleep of an invocation follows the attempt of index k - 1 and
\* lasts 2^(index + 2) seconds; the sleeps are strictly increasing and none
\* exceeds 2048 seconds.
C8_Backoff ==
    \A k \in 1..Len(sleeps) :
        /\ sleeps[k].after = k - 1
        /\ sleeps[k].seconds = 2 ^ (sleeps[k].after + 2)
        /\ sleeps[k].seconds <= 2048
        /\ k > 1 => sleeps[k].seconds > sleeps[k - 1].seconds

\* C8 witness: the sleeps 4, 8, ..., 2048 of an invocation that met rate
\* limits and 502s
C8_Witness ==
    /\ Len(sleeps) = 10
    /\ sleeps[1].seconds = 4
    /\ sleeps[2].seconds = 8
    /\ sleeps[10].seconds = 2048
    /\ rlCount > 0
    /\ badGateways > 0

\* C9: when the diff GET answers a status other than 200, review_pr raises
\* without any chat-completion attempt and without a review POST, and the
\* GET is made once.
C9_FetchFailureFatal ==
    /\ Len(gets) <= 1
    /\ (gets # <<>> /\ gets[1] # 200) =>
          /\ pc = "done"
          /\ result = Raised("ValueError", "fetch", gets[1], result.text)
          /\ apiCalls = 0
          /\ sleeps = <<>>
          /\ posts = <<>>

\* C9 witness: a GET answered 404
C9_Witness ==
    /\ gets = <<404>>
    /\ pc = "done"
    /\ result.site = "fetch"

\* t without its first a and its last b characters
Middle(t, a, b) == [i \in 1..(Len(t) - a - b) |-> t[a + i]]

\* the first a and the last b characters of t are exactly its leading and
\* trailing whitespace
IsPadding(t, a, b) ==
    /\ a + b <= Len(t)
    /\ \A i \in 1..a : t[i] \in Whitespace
    /\ \A i \in (Len(t) - b + 1)..Len(t) : t[i] \in Whitespace
    /\ a + b < Len(t) => (t[a + 1] \notin Whitespace /\ t[Len(t) - b] \notin Whitespace)

\* c and d are the same character up to case
SameLetter(c, d) ==
    c = d \/ \E i \in 1..Len(Uppers) : {c, d} = {Uppers[i], Lowers[i]}

\* s starts with token, case ignored
StartsWithIgnoringCase(s, token) ==
    /\ Len(s) >= Len(token)
    /\ \A i \in 1..Len(token) : SameLetter(s[i], token[i])

\* s without its first n characters
Without(s, n) == [i \in 1..(Len(s) - n) |-> s[n + i]]

\* C10: _push_review strips the model text and tests it, case ignored, for
\* "acceptable" and then for "request changes"; the body it posts is the
\* stripped text without its first 10, respectively 15, characters; when
\* neither token leads the text it raises an error naming the stripped text
\* and posts nothing.
C10_VerdictParsed ==
    pc = "done" =>
        \E a, b \in 0..Len(llm_response.text) :
          LET s == Middle(llm_response.text, a, b) IN
            /\ IsPadding(llm_response.text, a, b)
            /\ IF StartsWithIgnoringCase(s, Acceptable)
               THEN /\ result.site # "verdict"
                    /\ result.site # "url" =>
                          (Len(posts) = 1 /\ posts[1].data.body = Without(s, 10))
               ELSE IF StartsWithIgnoringCase(s, RequestChanges)
               THEN /\ result.site # "verdict"
                    /\ result.site # "url" =>
                          (Len(posts) = 1 /\ posts[1].data.body = Without(s, 15))
               ELSE /\ result = Raised("ValueError", "verdict", 0, s)
                    /\ posts = <<>>

\* C10 witness: a padded upper-case "request changes" answer whose remainder
\* keeps its inner whitespace
C10_Witness ==
    /\ pc = "done"
    /\ llm_response.text = <<" ">> \o TextInner \o <<"\n">>
    /\ Len(posts) = 1
    /\ posts[1].data.body = <<" ","f","i","x"," ","\n"," ","i","t">>

\* t without its leading and trailing whitespace
Stripped(t) ==
    LET w == CHOOSE x \in (0..Len(t)) \X (0..Len(t)) : IsPadding(t, x[1], x[2])
    IN  Middle(t, w[1], w[2])

\* the model text t, stripped, starts with one of the two verdict tokens
Accepts(t) == StartsWithIgnoringCase(Stripped(t), Acceptable)

Rejects(t) == StartsWithIgnoringCase(Stripped(t), RequestChanges)

\* C11: every review POST carries APPROVE exactly when the stripped model
\* text starts, case ignored, with "acceptable", and REQUEST_CHANGES exactly
\* when it starts with "request changes"; no POST carries any other event.
C11_EventMatchesVerdict ==
    \A k \in 1..Len(posts) :
        /\ posts[k].data.event \in {"APPROVE", "REQUEST_CHANGES"}
        /\ posts[k].data.event = "APPROVE" <=> Accepts(llm_response.text)
        /\ posts[k].data.event = "REQUEST_CHANGES" <=> Rejects(llm_response.text)

\* C11 witness: an upper-case padded "ACCEPTABLE" posted as APPROVE
C11_Witness ==
    /\ pc = "done"
    /\ llm_response.text = <<"\n">> \o TextUpper \o <<" ">>
    /\ Len(posts) = 1
    /\ posts[1].data.event = "APPROVE"

\* C12: review_pr returns its success string exactly when the review POST
\* was made and answered 200; every other finished run raised.
C12_SuccessIffPosted ==
    /\ (result = Returned) <=>
          (pc = "done" /\ Len(posts) = 1 /\ posts[1].answer = 200)
    /\ pc = "done" => result.kind \in {"returned", "raised"}
    /\ result.kind = "raised" =>
          /\ pc = "done"
          /\ result.site \in {"fetch", "chat", "no_response", "verdict", "url", "post"}
          /\ result.site = "post" <=> (Len(posts) = 1 /\ posts[1].answer # 200)

\* C12 witness: a run whose POST was answered 200 and that returned
C12_Witness ==
    /\ pc = "done"
    /\ result = Returned
    /\ Len(posts) = 1
    /\ posts[1].answer = 200

\* C13: in one invocation the diff GET comes first and is made once, the
\* chat-completion attempts follow a GET answered 200, and the review POST,
\* made at most once, follows the return of create_chat_completion with a
\* text that carries a verdict; no attempt follows the POST.
C13_NetworkOrder ==
    /\ [](pc # "idle" => Len(gets) = 1)
    /\ []((apiCalls > 0 \/ sent # {}) => gets = <<200>>)
    /\ [](Len(posts) <= 1)
    /\ [](posts # <<>> =>
            /\ pc = "done"
            /\ apiCalls > 0
            /\ llm_response.some
            /\ Accepts(llm_response.text) \/ Rejects(llm_response.text))
    /\ [][apiCalls' > apiCalls => (posts = <<>> /\ posts' = <<>> /\ gets' = gets)]_vars
    /\ [][posts' # posts /\ posts' # <<>> =>
            (pc = "push" /\ llm_response.some /\ apiCalls' = apiCalls /\ gets' = gets)]_vars

\* C13 witness: a run with a GET, ten attempts, some of them retried after a
\* rate limit, and one POST
C13_Witness ==
    /\ pc = "done"
    /\ gets = <<200>>
    /\ apiCalls = 10
    /\ rlCount > 0
    /\ Len(posts) = 1

\* the text "https://github.com/" and the text "/pull/"
GithubRoot ==
    <<"h","t","t","p","s",":","/","/","g","i","t","h","u","b",".","c","o","m","/">>

SlashPull == <<"/","p","u","l","l","/">>

\* the characters of url from position i, n of them
Part(url, i, n) == [k \in 1..n |-> url[i + k - 1]]

\* the number a string of decimal digits writes
DecimalValue(ds) ==
    LET RECURSIVE Sum(_)
        Sum(k) == IF k = 0 THEN 0
                  ELSE Sum(k - 1) * 10
                       + (CHOOSE v \in 0..9 : Digits[v + 1] = ds[k])
    IN  Sum(Len(ds))

\* url is https://github.com/<owner>/<repo>/pull/<digits> with an owner of a
\* characters, a repo of b characters and n digits, and nothing else
HasShape(url, a, b, n) ==
    LET o == Len(GithubRoot) + 1
        r == o + a + 1
        d == r + b + Len(SlashPull)
    IN  /\ Len(url) = Len(GithubRoot) + a + 1 + b + Len(SlashPull) + n
        /\ Part(url, 1, Len(GithubRoot)) = GithubRoot
        /\ \A k \in 1..a : url[o + k - 1] # "/"
        /\ url[o + a] = "/"
        /\ \A k \in 1..b : url[r + k - 1] # "/"
        /\ Part(url, r + b, Len(SlashPull)) = SlashPull
        /\ \A k \in 1..n : \E v \in 1..10 : Digits[v] = url[d + k - 1]

\* C14: for a URL of the exact shape https://github.com/<owner>/<repo>/pull/<digits>
\* extract_github_info returns the owner, the repo and the value of the
\* digits; for every other URL it returns None, so that _push_review, which
\* posts to the owner, repo and number it returns, posts nothing.
C14_ExactShapeOnly ==
    LET info == extract_github_info(pr_link)
        n    == Len(pr_link)
    IN  pc = "done" =>
          IF \E a, b, d \in 1..n : HasShape(pr_link, a, b, d)
          THEN \E a, b, d \in 1..n :
                  /\ HasShape(pr_link, a, b, d)
                  /\ info.matched
                  /\ info.owner = Part(pr_link, Len(GithubRoot) + 1, a)
                  /\ info.repo = Part(pr_link, Len(GithubRoot) + a + 2, b)
                  /\ info.pull_id = DecimalValue(Part(pr_link, n - d + 1, d))
          ELSE info = NoInfo /\ posts = <<>>

\* C15: when extract_github_info returns None for the URL given to
\* review_pr, the invocation ends with an error, with no review POST and
\* without the success string.
C15_BadUrlFatal ==
    ~extract_github_info(pr_link).matched =>
        /\ posts = <<>>
        /\ result # Returned
        /\ pc = "done" => result.kind = "raised"
        /\ (pc = "done" /\ llm_response.some) => result.site \in {"verdict", "url"}

\* C15 witness: a URL of another host, a diff fetched, an accepting verdict
\* obtained, and the TypeError of the missing match
C15_Witness ==
    /\ pc = "done"
    /\ pr_link = LinkOtherHost
    /\ llm_response.text = TextNiceWork
    /\ result = Raised("TypeError", "url", 0, <<>>)
    /\ posts = <<>>

\* C16: every sleep of create_chat_completion is followed by another attempt
\* of the same invocation: no sleep follows the attempt of index 9, and an
\* invocation that left its loop has slept fewer times than it attempted.
C16_SleepOnlyBeforeRetry ==
    /\ \A k \in 1..Len(sleeps) : sleeps[k].after < 9
    /\ (pc \in {"chat_end", "push", "done"}) => Len(sleeps) < apiCalls

\* C17: an invocation that follows one which warned starts
\* create_chat_completion with the flag unset, the attempt index 0 and no
\* response; it logs the warning once if it is rate-limited itself, its
\* first attempt has index 0, its first sleep lasts 4 seconds, and it never
\* returns the response of the earlier invocation.
C17_FlagScopedToCall ==
    /\ [][pc = "process_diff" =>
            (warned_user' = FALSE /\ attempt' = 0 /\ response' = None)]_vars
    /\ [](warnings = IF rlCount > 0 THEN 1 ELSE 0)
    /\ [](apiCalls = 1 => last.index = 0)
    /\ [](sleeps # <<>> => sleeps[1] = [after |-> 0, seconds |-> 4])
    /\ [](llm_response.some => (firstOk.some /\ response.some))

\* C17 witness: the later invocation, rate-limited on its first attempt and
\* again later, has warned once and slept 4, then 8 seconds
C17_Witness ==
    /\ rlCount >= 2
    /\ warnings = 1
    /\ Len(sleeps) >= 2
    /\ sleeps[1].seconds = 4
    /\ sleeps[2].seconds = 8

\* C18: the body of a review POST is what is left of the stripped model text
\* after one leading verdict token: token and body together are the stripped
\* text again, whatever the body starts with; "acceptable acceptable" is
\* posted as " acceptable".
C18_OneTokenRemoved ==
    \A k \in 1..Len(posts) :
        LET s    == Stripped(llm_response.text)
            body == posts[k].data.body
        IN  /\ \E token \in {Acceptable, RequestChanges} :
                 /\ Len(s) = Len(token) + Len(body)
                 /\ \A i \in 1..Len(token) : SameLetter(s[i], token[i])
                 /\ \A i \in 1..Len(body) : body[i] = s[Len(token) + i]
            /\ s = TextTwice => body = <<" ">> \o Acceptable

\* C18 witness: "acceptable acceptable" posted as " acceptable"
C18_Witness ==
    /\ pc = "done"
    /\ llm_response.text = TextTwice
    /\ Len(posts) = 1
    /\ posts[1].data.body = <<" ","a","c","c","e","p","t","a","b","l","e">>

\* C19: the attempts of one invocation all send one and the same request:
\* two messages, the system prompt and then the user message whose content
\* is the body of the diff GET, with temperature 0.
C19_SameRequest ==
    /\ apiCalls = 0 => sent = {}
    /\ apiCalls > 0 => Cardinality(sent) = 1
    /\ \A r \in sent :
          /\ Len(r.messages) = 2
          /\ r.messages[1] = [role |-> "system", content |-> SystemPrompt]
          /\ r.messages[2] = [role |-> "user", content |-> fetched]
          /\ r.temperature = 0

\* C19 witness: ten attempts, some after a rate limit and some after a 502,
\* all with the diff "-y"
C19_Witness ==
    /\ apiCalls = 10
    /\ rlCount > 0
    /\ badGateways > 0
    /\ fetched = DiffDel
    /\ Cardinality(sent) = 1

====
